---- MODULE Spec2Model ----
(***************************************************************************)
(* Model of the rotation conversion functions of src/conversion.js and of  *)
(* the gl-matrix calls they make.                                          *)
(*                                                                         *)
(* Numbers.  A JavaScript Number is a binary floating-point value rounded  *)
(* to nearest, ties to even, with NaN and the two infinities.  It is       *)
(* modelled as <<m, e>>, standing for m * 2^e, with a significand of       *)
(* SigBits bits instead of 53 so that every intermediate fits a 32-bit     *)
(* integer.  gl-matrix keeps vec3, vec4, quat and mat3 in Float32Array, so *)
(* a value stored into one is rounded to 24 bits (Fround); SigBits is      *)
(* larger than 24, as 53 is.  Zero carries no sign.                        *)
(*                                                                         *)
(* A value that an operator uses more than once is a parameter of an       *)
(* operator, so that it is computed once.                                  *)
(***************************************************************************)
EXTENDS Integers, Sequences, FiniteSets, TLC

SigBits == 28

SpecialExp == 9999
NaN == <<0, SpecialExp>>
PosInf == <<1, SpecialExp>>
NegInf == <<-1, SpecialExp>>
Zero == <<0, 0>>

IsNaN(x) == x = NaN
IsInf(x) == x = PosInf \/ x = NegInf
IsFinite(x) == x[2] # SpecialExp

Abs(n) == IF n < 0 THEN -n ELSE n
Max(a, b) == IF a >= b THEN a ELSE b
Min(a, b) == IF a <= b THEN a ELSE b
Sgn(n) == IF n < 0 THEN -1 ELSE IF n > 0 THEN 1 ELSE 0

\* number of significant bits of the natural a < 2^w, w a power of two
RECURSIVE NBitsIn(_, _)
NBitsIn(a, w) ==
  IF w = 1 THEN a
  ELSE IF a < 2^(w \div 2) THEN NBitsIn(a, w \div 2)
  ELSE (w \div 2) + NBitsIn(a \div 2^(w \div 2), w \div 2)
\* number of significant bits of the natural a < 2^31
NBits(a) == NBitsIn(a, 32)

\* the exponent of the least significant bit of the smallest subnormal, and the
\* power of two no finite value reaches: binary64 (at SigBits) and binary32
MinExp64 == -1022 - (SigBits - 1)
TopExp64 == 1024
MinExp32 == -149
TopExp32 == 128

ShiftUp(q, e, sh) == IF sh > 0 THEN <<q * 2^sh, e - sh>> ELSE <<q, e>>
\* <<q, e>> with q # 0 of n bits brought to the canonical form: SigBits
\* significant bits, or fewer for a subnormal (q of SigBits + 1 bits is a
\* rounding carried up to a power of two)
CanonOf(q, e, n) ==
  IF n > SigBits THEN <<q \div 2, e + 1>>
  ELSE ShiftUp(q, e, Min(SigBits - n, e - MinExp64))
Canon(q, e) == CanonOf(q, e, NBits(q))

Signed(sg, c) == <<sg * c[1], c[2]>>
\* the rounded significand q at exponent e, signed: infinite from 2^top on
Finish(sg, q, e, top) ==
  IF q = 0 THEN Zero
  ELSE IF NBits(q) + e > top THEN <<sg, SpecialExp>>
  ELSE Signed(sg, Canon(q, e))

\* to nearest, ties to even: q0 is followed by the k bits r (half: the k bits
\* of a tie) and, below them, by nonzero bits iff st
RoundUp(q0, r, half, st, k) ==
  IF k > 0 /\ (r > half \/ (r = half /\ (st \/ q0 % 2 = 1))) THEN q0 + 1 ELSE q0

\* a * 2^e (a > 0; st: the exact value has further nonzero bits below a's last)
\* with its last k bits (k <= 30) rounded away
RoundK(sg, a, e, st, k, top) ==
  Finish(sg, RoundUp(a \div 2^k, a % 2^k, IF k = 0 THEN 0 ELSE 2^(k - 1), st, k),
         e + k, top)

\* a * 2^e with its last k bits rounded away, the lowest j of them cut before
\* the rounding of the other k - j <= 30
DropBits(sg, a, e, st, k, j, top) ==
  IF k >= 61 THEN Zero
  ELSE RoundK(sg, a \div 2^j, e + j, st \/ a % 2^j # 0, k - j, top)
DropLast(sg, a, e, st, k, top) == DropBits(sg, a, e, st, k, Max(k - 30, 0), top)

\* a * 2^e rounded at p significant bits, no bit below 2^emin; infinite from
\* 2^top on.  sg is the sign.
RoundTo(sg, a, e, st, p, emin, top) ==
  IF a = 0 THEN Zero
  ELSE DropLast(sg, a, e, st, Max(Max(NBits(a) - p, emin - e), 0), top)

Round64(sg, a, e, st) == RoundTo(sg, a, e, st, SigBits, MinExp64, TopExp64)

\* Float32Array element store (Math.fround)
Fround(x) ==
  IF ~IsFinite(x) \/ x[1] = 0 THEN x
  ELSE RoundTo(Sgn(x[1]), Abs(x[1]), x[2], FALSE, 24, MinExp32, TopExp32)

FNeg(x) == IF IsNaN(x) THEN NaN ELSE <<-x[1], x[2]>>
FAbs(x) == IF IsNaN(x) THEN NaN ELSE <<Abs(x[1]), x[2]>>

\* h * 2^28 + low as <<H, L>>, L < 2^28
Carry(h, low) == <<h + (low \div 268435456), low % 268435456>>
\* hh * 2^28 + mid * 2^14 + ll as <<H, L>>
WideSum(hh, mid, ll) == Carry(hh + (mid \div 16384), (mid % 16384) * 16384 + ll)
\* a * b for naturals a, b < 2^28, as <<H, L>>: a * b = H * 2^28 + L
MulWide(a, b) ==
  WideSum((a \div 16384) * (b \div 16384),
          (a \div 16384) * (b % 16384) + (a % 16384) * (b \div 16384),
          (a % 16384) * (b % 16384))

\* (hl[1] * 2^28 + hl[2]) * 2^(e - 26), rounded
RoundProduct(sg, hl, e) ==
  Round64(sg, hl[1] * 4 + (hl[2] \div 67108864), e, hl[2] % 67108864 # 0)

\* x * y
FMul(x, y) ==
  IF IsNaN(x) \/ IsNaN(y) THEN NaN
  ELSE IF IsInf(x) \/ IsInf(y)
    THEN IF x[1] = 0 \/ y[1] = 0 THEN NaN ELSE <<Sgn(x[1]) * Sgn(y[1]), SpecialExp>>
  ELSE IF x[1] = 0 \/ y[1] = 0 THEN Zero
  ELSE RoundProduct(Sgn(x[1]) * Sgn(y[1]), MulWide(Abs(x[1]), Abs(y[1])),
                    x[2] + y[2] + 26)

\* |x| < |y| for finite nonzero x, y whose highest bits are at nx and ny
MagLessAt(x, y, nx, ny) ==
  IF nx # ny THEN nx < ny
  ELSE IF x[2] >= y[2] THEN Abs(x[1]) * 2^(x[2] - y[2]) < Abs(y[1])
  ELSE Abs(x[1]) < Abs(y[1]) * 2^(y[2] - x[2])
\* |x| < |y| for finite x, y
MagLess(x, y) ==
  IF y[1] = 0 THEN FALSE
  ELSE IF x[1] = 0 THEN TRUE
  ELSE MagLessAt(x, y, NBits(Abs(x[1])) + x[2], NBits(Abs(y[1])) + y[2])

\* A + B (same) or A - B, at exponent e; st: B was cut
AlignedSum(sg, same, A, B, st, e) ==
  Round64(sg, IF same THEN A + B ELSE A - B - (IF st THEN 1 ELSE 0), e, st)
\* the same for B = B4 * 2^(-d)
AlignedBy(sg, same, A, B4, d, e) ==
  AlignedSum(sg, same, A,
             IF d >= 31 THEN 0 ELSE IF d <= 0 THEN B4 * 2^(-d) ELSE B4 \div 2^d,
             IF d >= 31 THEN TRUE ELSE IF d <= 0 THEN FALSE ELSE B4 % 2^d # 0, e)
\* x + y for finite nonzero x, y with |x| >= |y|, in quarters of x's last bit
AddOrdered(x, y) ==
  AlignedBy(Sgn(x[1]), Sgn(x[1]) = Sgn(y[1]), Abs(x[1]) * 4, Abs(y[1]) * 4,
            x[2] - y[2], x[2] - 2)
AddSwapped(x, y, swap) == AddOrdered(IF swap THEN y ELSE x, IF swap THEN x ELSE y)

\* x + y
FAdd(x, y) ==
  IF IsNaN(x) \/ IsNaN(y) THEN NaN
  ELSE IF IsInf(x) THEN (IF IsInf(y) /\ x # y THEN NaN ELSE x)
  ELSE IF IsInf(y) THEN y
  ELSE IF y[1] = 0 THEN x
  ELSE IF x[1] = 0 THEN y
  ELSE AddSwapped(x, y, MagLess(x, y))

FSub(x, y) == FAdd(x, FNeg(y))

\* the quotient bits of r / b after n more steps of three bits each
RECURSIVE DivSteps(_, _, _, _)
DivSteps(q, r, b, n) ==
  IF n = 0 THEN <<q, r>>
  ELSE IF r = 0 THEN <<q * 8^n, 0>>
  ELSE DivSteps(q * 8 + ((r * 8) \div b), (r * 8) % b, b, n - 1)

\* a * 2^e, a > 0, with a brought to SigBits bits (a subnormal's too)
Full(a, e) == ShiftUp(a, e, SigBits - NBits(a))

\* the quotient bits qr[1], remainder qr[2], rounded
QuotientBits(sg, qr, e) == Round64(sg, qr[1], e, qr[2] # 0)
\* (a * 2^ea) / (b * 2^eb), a and b of SigBits bits
Quotient(sg, a, ea, b, eb) ==
  QuotientBits(sg, DivSteps(1, (IF a < b THEN 2 * a ELSE a) - b, b, 10),
               ea - eb - (IF a < b THEN 1 ELSE 0) - 30)
DivFull(sg, fx, fy) == Quotient(sg, fx[1], fx[2], fy[1], fy[2])

\* x / y
FDiv(x, y) ==
  IF IsNaN(x) \/ IsNaN(y) THEN NaN
  ELSE IF IsInf(x)
    THEN IF IsInf(y) THEN NaN
         ELSE <<Sgn(x[1]) * (IF y[1] < 0 THEN -1 ELSE 1), SpecialExp>>
  ELSE IF IsInf(y) THEN Zero
  ELSE IF y[1] = 0
    THEN IF x[1] = 0 THEN NaN ELSE <<Sgn(x[1]), SpecialExp>>
  ELSE IF x[1] = 0 THEN Zero
  ELSE DivFull(Sgn(x[1]) * Sgn(y[1]), Full(Abs(x[1]), x[2]), Full(Abs(y[1]), y[2]))

\* c * c = H * 2^28 + L for a natural c < 2^29, as <<H, L>>
SquareParts(c1, c0) ==
  Carry(c1 * c1 * 4 + ((c1 * c0) \div 4096), ((c1 * c0) % 4096) * 65536 + c0 * c0)
SquareWide(c) == SquareParts(c \div 32768, c % 32768)

\* sq, a square as SquareWide gives it, is at most XH * 2^28
Fits(sq, XH) == sq[1] < XH \/ (sq[1] = XH /\ sq[2] = 0)

\* the largest root + j (j < 2^(i+1)) whose square is at most XH * 2^28
RECURSIVE SqrtBits(_, _, _)
SqrtBits(root, i, XH) ==
  IF i < 0 THEN root
  ELSE IF Fits(SquareWide(root + 2^i), XH) THEN SqrtBits(root + 2^i, i - 1, XH)
  ELSE SqrtBits(root, i - 1, XH)

\* the square root of XH * 2^(2 e + 28), 2^28 <= XH < 2^30
SqrtRound(R, XH, e) == Round64(1, R, e, SquareWide(R) # <<XH, 0>>)
SqrtOf(XH, e) == SqrtRound(SqrtBits(268435456, 27, XH), XH, e)
\* the square root of f[1] * 2^f[2], f[1] of SigBits bits
SqrtFull(f, odd) ==
  SqrtOf((IF odd THEN 2 ELSE 4) * f[1], (f[2] - (IF odd THEN 29 ELSE 30)) \div 2)
SqrtParity(f) == SqrtFull(f, f[2] % 2 = 1)

\* Math.sqrt
FSqrt(x) ==
  IF IsNaN(x) \/ x[1] < 0 THEN NaN
  ELSE IF x = PosInf \/ x[1] = 0 THEN x
  ELSE SqrtParity(Full(x[1], x[2]))

\* -1, 0, 1 as x < y, x = y, x > y, for x and y not NaN
Cmp(x, y) ==
  IF x = y THEN 0
  ELSE IF IsInf(x) THEN x[1]
  ELSE IF IsInf(y) THEN -y[1]
  ELSE IF Sgn(x[1]) # Sgn(y[1]) THEN (IF x[1] < y[1] THEN -1 ELSE 1)
  ELSE IF MagLess(IF x[1] > 0 THEN x ELSE y, IF x[1] > 0 THEN y ELSE x) THEN -1
  ELSE 1

FLt(x, y) == ~IsNaN(x) /\ ~IsNaN(y) /\ Cmp(x, y) < 0
FLe(x, y) == ~IsNaN(x) /\ ~IsNaN(y) /\ Cmp(x, y) <= 0
FGt(x, y) == FLt(y, x)
FGe(x, y) == FLe(y, x)
\* x === y
FEq(x, y) == ~IsNaN(x) /\ ~IsNaN(y) /\ x = y

\* the Number of an integer literal
FromInt(n) == Round64(Sgn(n), Abs(n), 0, FALSE)

\* 1, 2, 0.5 (significands of SigBits bits)
One == <<134217728, -27>>
Two == <<134217728, -26>>
Half == <<134217728, -28>>
\* Math.PI, and Math.PI / 2
PI == <<210828714, -26>>
HalfPI == <<210828714, -27>>

\* Math.min, Math.max, Math.abs, Math.sign
MathMin(x, y) == IF IsNaN(x) \/ IsNaN(y) THEN NaN ELSE IF FLt(y, x) THEN y ELSE x
MathMax(x, y) == IF IsNaN(x) \/ IsNaN(y) THEN NaN ELSE IF FGt(y, x) THEN y ELSE x
MathAbs(x) == FAbs(x)
MathSign(x) == IF IsNaN(x) THEN NaN ELSE FromInt(Sgn(x[1]))

\* a / d, a and d > 0 naturals, to the nearest integer, a tie upwards
DivNearest(a, d) == IF 2 * (a % d) >= d THEN (a \div d) + 1 ELSE a \div d
\* the integer nearest to the finite t, |t| < 2^27
NearestInt(t) ==
  IF t[1] = 0 THEN 0
  ELSE IF t[2] >= 0 THEN t[1] * 2^t[2]
  ELSE IF -t[2] > 30 THEN 0
  ELSE Sgn(t[1]) * DivNearest(Abs(t[1]), 2^(-t[2]))

\* the divisors of the series of sin and cos, as factors: 1/6, 1/20, 1/42, 1/72,
\* 1/110, 1/156 and 1/2, 1/12, 1/30, 1/56, 1/90, 1/132, 1/182
SinDivisors ==
  << <<178956971, -30>>, <<214748365, -32>>, <<204522252, -33>>, <<238609294, -34>>,
     <<156180629, -34>>, <<220254733, -35>> >>
CosDivisors ==
  << <<134217728, -28>>, <<178956971, -31>>, <<143165577, -32>>, <<153391689, -33>>,
     <<190887435, -34>>, <<260301048, -35>>, <<188789771, -35>> >>
\* the coefficients of the series of atan: 1, 1/3, 1/5, ..., 1/25
AtanCoeffs ==
  << <<134217728, -27>>, <<178956971, -29>>, <<214748365, -30>>, <<153391689, -30>>,
     <<238609294, -31>>, <<195225786, -31>>, <<165191050, -31>>, <<143165577, -31>>,
     <<252645135, -32>>, <<226050910, -32>>, <<204522252, -32>>, <<186737709, -32>>,
     <<171798692, -32>> >>

\* 1 - z c[1] (1 - z c[2] (... (1 - z c[i] acc))), from the innermost term out
RECURSIVE Nested(_, _, _, _)
Nested(z, c, i, acc) ==
  IF i = 0 \/ IsNaN(acc) THEN acc
  ELSE Nested(z, c, i - 1, FSub(One, FMul(FMul(z, c[i]), acc)))

\* sin and cos of r, |r| <= pi/4
SinKernel(r) == FMul(r, Nested(FMul(r, r), SinDivisors, Len(SinDivisors), One))
CosKernel(r) == Nested(FMul(r, r), CosDivisors, Len(CosDivisors), One)

\* pi/2 in three parts, the first two of 14 bits each
PIO2a == <<210812928, -27>>
PIO2b == <<258637824, -41>>
PIO2c == <<142975753, -57>>
TwoOverPI == <<170891319, -28>>

\* x - K pi/2
ReduceParts(x, K) ==
  FSub(FSub(FSub(x, FMul(K, PIO2a)), FMul(K, PIO2b)), FMul(K, PIO2c))
ReduceBy(x, k) == IF k = 0 THEN x ELSE ReduceParts(x, FromInt(k))

\* the quadrant of x: the integer nearest to x / (pi/2); |x| < 2^13
Quadrant(x) == NearestInt(FMul(x, TwoOverPI))

NegIf(neg, v) == IF neg THEN FNeg(v) ELSE v
\* sin(r + n pi/2) from the kernels
Kernel(r, n) == NegIf(n % 4 >= 2, IF n % 2 = 0 THEN SinKernel(r) ELSE CosKernel(r))
\* sin(x + n pi/2), x in the quadrant k
SinShifted(x, k, n) == Kernel(ReduceBy(x, k), k + n)

\* Math.sin
FSin(x) == IF ~IsFinite(x) THEN NaN ELSE SinShifted(x, Quadrant(x), 0)

\* Math.cos
FCos(x) == IF ~IsFinite(x) THEN NaN ELSE SinShifted(x, Quadrant(x), 1)

\* c[1] - z (c[2] - z (... (c[i] - z acc))), from the innermost term out
RECURSIVE Alternating(_, _, _, _)
Alternating(z, c, i, acc) ==
  IF i = 0 \/ IsNaN(acc) THEN acc
  ELSE Alternating(z, c, i - 1, FSub(c[i], FMul(z, acc)))

AtanSeries(r) == FMul(r, Alternating(FMul(r, r), AtanCoeffs, 12, AtanCoeffs[13]))

\* atan t = AtanBase[s] + atan(AtanArg(t, s)) on the segment s of t >= 0, which
\* ends at AtanBounds[s]: 7/16, 11/16, 19/16, 39/16; on the last, 5, atan t =
\* pi/2 - atan(1/t).  AtanBase: 0, atan 0.5, atan 1, atan 1.5, pi/2
AtanBounds ==
  << <<234881024, -29>>, <<184549376, -28>>, <<159383552, -27>>, <<163577856, -26>> >>
AtanBase ==
  << Zero, <<248918915, -29>>, <<210828714, -28>>, <<263816681, -28>>, HalfPI >>
ThreeHalves == <<201326592, -27>>
RECURSIVE Segment(_, _)
Segment(t, s) == IF s = 5 \/ FLt(t, AtanBounds[s]) THEN s ELSE Segment(t, s + 1)
AtanArg(t, s) ==
  FDiv(CASE s = 1 -> t
         [] s = 2 -> FSub(FMul(Two, t), One)
         [] s = 3 -> FSub(t, One)
         [] s = 4 -> FSub(t, ThreeHalves)
         [] OTHER -> One,
       CASE s = 1 -> One
         [] s = 2 -> FAdd(Two, t)
         [] s = 3 -> FAdd(t, One)
         [] s = 4 -> FAdd(One, FMul(ThreeHalves, t))
         [] OTHER -> t)

AtanOn(t, s) == FAdd(AtanBase[s], NegIf(s = 5, AtanSeries(AtanArg(t, s))))
\* atan(t) for a finite t >= 0
AtanPos(t) == AtanOn(t, Segment(t, 1))

\* the angle of (x, y) from the angle a of (|x|, y), y > 0
Supplement(a, x) == IF x[1] > 0 THEN a ELSE FSub(PI, a)
\* atan2(y, x) for y > 0, finite nonzero x and y, t = y / |x|
AtanQuotient(t, x) == IF IsInf(t) THEN HalfPI ELSE Supplement(AtanPos(t), x)

\* Math.atan2(y, x) for y >= 0
Atan2Pos(y, x) ==
  IF y[1] = 0 THEN (IF x[1] < 0 THEN PI ELSE Zero)
  ELSE IF IsInf(y)
    THEN IF x = PosInf THEN FDiv(PI, FromInt(4))
         ELSE IF x = NegInf THEN FMul(FromInt(3), FDiv(PI, FromInt(4)))
         ELSE HalfPI
  ELSE IF x = PosInf THEN Zero
  ELSE IF x = NegInf THEN PI
  ELSE IF x[1] = 0 THEN HalfPI
  ELSE AtanQuotient(FDiv(y, FAbs(x)), x)

\* Math.atan2(y, x)
FAtan2(y, x) ==
  IF IsNaN(x) \/ IsNaN(y) THEN NaN
  ELSE NegIf(y[1] < 0, Atan2Pos(FAbs(y), x))

\* sqrt((1 - x)(1 + x)) for |x| <= 1
CoFactor(x) == FSqrt(FMul(FSub(One, x), FAdd(One, x)))

\* Math.asin
FAsin(x) ==
  IF IsNaN(x) \/ FGt(FAbs(x), One) THEN NaN
  ELSE FAtan2(x, CoFactor(x))

\* Math.acos
FAcos(x) ==
  IF IsNaN(x) \/ FGt(FAbs(x), One) THEN NaN
  ELSE FAtan2(CoFactor(x), x)
(***************************************************************************)
(* gl-matrix.  An array object is [f32 |-> BOOLEAN, el |-> tuple]: a       *)
(* Float32Array (what vec3.create, vec4.create, quat.create, mat3.create   *)
(* and fromValues give) rounds every element stored into it; a plain Array *)
(* keeps the Number.  Elements are numbered from 1 here, from 0 in the     *)
(* source.                                                                 *)
(***************************************************************************)
Store(f32, x) == IF f32 THEN Fround(x) ELSE x
StoreAll(f32, t) == [i \in DOMAIN t |-> Store(f32, t[i])]
Typed(t) == [f32 |-> TRUE, el |-> StoreAll(TRUE, t)]
Plain(t) == [f32 |-> FALSE, el |-> t]

\* glMatrix.EPSILON
EPSILON == FDiv(One, FromInt(1000000))
\* glMatrix.toDegree, glMatrix.toRadian
degree == FDiv(PI, FromInt(180))
radian == FDiv(FromInt(180), PI)
ToDegree(a) == FMul(a, radian)
ToRadian(a) == FMul(a, degree)

\* quat.create(), mat3.create(), vec3.create(), vec4.create()
QuatCreate == Typed(<<Zero, Zero, Zero, One>>)
Mat3Create == Typed(<<One, Zero, Zero, Zero, One, Zero, Zero, Zero, One>>)
Vec3Create == Typed(<<Zero, Zero, Zero>>)
Vec4Create == Typed(<<Zero, Zero, Zero, Zero>>)

\* the scale vec3.normalize and vec4.normalize multiply by
NormScale(len) == IF FGt(len, Zero) THEN FDiv(One, FSqrt(len)) ELSE len
\* a, element by element, times k
Scaled(a, k) == [i \in DOMAIN a |-> FMul(a[i], k)]

\* vec3.normalize(out, a): the values stored, before the store's rounding
Vec3Normalize(a) ==
  Scaled(a, NormScale(FAdd(FAdd(FMul(a[1], a[1]), FMul(a[2], a[2])), FMul(a[3], a[3]))))

\* quat.normalize(out, a) (vec4.normalize)
QuatNormalize(a) ==
  Scaled(a, NormScale(FAdd(FAdd(FAdd(FMul(a[1], a[1]), FMul(a[2], a[2])),
                                FMul(a[3], a[3])), FMul(a[4], a[4]))))

\* quat.getAxisAngle(out_axis, q): [axis |-> the values stored, rad |-> returned]
AxisOver(q, rad, s) ==
  [axis |-> IF FGt(s, EPSILON)
              THEN <<FDiv(q[1], s), FDiv(q[2], s), FDiv(q[3], s)>>
              ELSE <<One, Zero, Zero>>,
   rad |-> rad]
AxisAt(q, rad) == AxisOver(q, rad, FSin(FDiv(rad, Two)))
QuatGetAxisAngle(q) == AxisAt(q, FMul(FAcos(q[4]), Two))

\* quat.setAxisAngle(out, axis, rad)
AxisTimes(axis, s, c) == <<FMul(s, axis[1]), FMul(s, axis[2]), FMul(s, axis[3]), c>>
AxisAtHalf(axis, h) == AxisTimes(axis, FSin(h), FCos(h))
QuatSetAxisAngle(axis, rad) == AxisAtHalf(axis, FMul(rad, Half))

\* quat.fromEuler(out, x, y, z, "zyx")
halfToRad == FDiv(PI, FromInt(360))
EulerProducts(sx, cx, sy, cy, sz, cz) ==
  << FSub(FMul(FMul(sx, cy), cz), FMul(FMul(cx, sy), sz)),
     FAdd(FMul(FMul(cx, sy), cz), FMul(FMul(sx, cy), sz)),
     FSub(FMul(FMul(cx, cy), sz), FMul(FMul(sx, sy), cz)),
     FAdd(FMul(FMul(cx, cy), cz), FMul(FMul(sx, sy), sz)) >>
EulerHalves(hx, hy, hz) ==
  EulerProducts(FSin(hx), FCos(hx), FSin(hy), FCos(hy), FSin(hz), FCos(hz))
QuatFromEuler(x, y, z) ==
  EulerHalves(FMul(x, halfToRad), FMul(y, halfToRad), FMul(z, halfToRad))

\* quat.fromMat3(out, m): the branch of a positive trace
TraceBranch(m, fRoot, r2) ==
  << FMul(FSub(m[6], m[8]), r2), FMul(FSub(m[7], m[3]), r2),
     FMul(FSub(m[2], m[4]), r2), FMul(Half, fRoot) >>
TraceRoot(m, fRoot) == TraceBranch(m, fRoot, FDiv(Half, fRoot))
\* the other branch: i is the index (from 0) of the largest diagonal element
LargerDiagonal(m, i) == IF FGt(m[9], m[i * 3 + i + 1]) THEN 2 ELSE i
LargestDiagonal(m) == LargerDiagonal(m, IF FGt(m[5], m[1]) THEN 1 ELSE 0)
PivotBranch(m, i, j, k, vi, r2) ==
  [n \in 1..4 |->
     IF n = 4 THEN FMul(FSub(m[j * 3 + k + 1], m[k * 3 + j + 1]), r2)
     ELSE IF n = i + 1 THEN vi
     ELSE IF n = j + 1 THEN FMul(FAdd(m[j * 3 + i + 1], m[i * 3 + j + 1]), r2)
     ELSE FMul(FAdd(m[k * 3 + i + 1], m[i * 3 + k + 1]), r2)]
PivotRootOf(m, i, j, k, fRoot) ==
  PivotBranch(m, i, j, k, FMul(Half, fRoot), FDiv(Half, fRoot))
PivotOrder(m, i, j, k) ==
  PivotRootOf(m, i, j, k,
              FSqrt(FAdd(FSub(FSub(m[i * 3 + i + 1], m[j * 3 + j + 1]),
                              m[k * 3 + k + 1]), One)))
PivotAt(m, i) == PivotOrder(m, i, (i + 1) % 3, (i + 2) % 3)
FromTrace(m, fTrace) ==
  IF FGt(fTrace, Zero) THEN TraceRoot(m, FSqrt(FAdd(fTrace, One)))
  ELSE PivotAt(m, LargestDiagonal(m))
\* quat.fromMat3(out, m), out a quat.create(): the elements after the call
QuatFromMat3(m) == FromTrace(m, FAdd(FAdd(m[1], m[5]), m[9]))

\* mat3.fromQuat(out, q)
FromProducts(xx, yx, yy, zx, zy, zz, wx, wy, wz) ==
  << FSub(FSub(One, yy), zz), FAdd(yx, wz), FSub(zx, wy),
     FSub(yx, wz), FSub(FSub(One, xx), zz), FAdd(zy, wx),
     FAdd(zx, wy), FSub(zy, wx), FSub(FSub(One, xx), yy) >>
FromDoubled(x, y, z, w, x2, y2, z2) ==
  FromProducts(FMul(x, x2), FMul(y, x2), FMul(y, y2), FMul(z, x2), FMul(z, y2),
               FMul(z, z2), FMul(w, x2), FMul(w, y2), FMul(w, z2))
Mat3FromQuat(q) ==
  FromDoubled(q[1], q[2], q[3], q[4], FAdd(q[1], q[1]), FAdd(q[2], q[2]), FAdd(q[3], q[3]))
(***************************************************************************)
(* src/conversion.js.  Each function is an operator from its arguments to  *)
(* what the call leaves behind: the argument objects as they are after the *)
(* call, the value returned (ret; "out" when the out argument itself is    *)
(* returned) and the error thrown (err, "none" when the call returns).     *)
(***************************************************************************)
InvalidUnit == "degOrRad must be \"deg\" or \"rad\""

\* the three angles of quaternionToEuler, before the unit conversion
EulerAlpha(x, y, z, w) ==
  FAtan2(FMul(Two, FAdd(FMul(w, x), FMul(y, z))),
         FSub(One, FMul(Two, FAdd(FMul(x, x), FMul(y, y)))))
EulerSinp(x, y, z, w) == FMul(Two, FSub(FMul(w, y), FMul(z, x)))
\* asin without the clamp of lines 20-22: C4 tells ClampedAsin from it
UnclampedAsin(sinp) == FAsin(sinp)
ClampedAsin(sinp) ==
  IF FGe(MathAbs(sinp), One) THEN FMul(MathSign(sinp), FDiv(PI, Two))
  ELSE FAsin(sinp)
EulerBeta(x, y, z, w) == ClampedAsin(EulerSinp(x, y, z, w))
EulerGamma(x, y, z, w) ==
  FAtan2(FMul(Two, FAdd(FMul(w, z), FMul(x, y))),
         FSub(One, FMul(Two, FAdd(FMul(y, y), FMul(z, z)))))

\* the unit branches with the angles in the order alpha, beta, gamma: C3 tells
\* EulerWritten from it
EulerWrittenReversed(out, gamma, beta, alpha, degOrRad) ==
  IF degOrRad = "deg"
    THEN [out EXCEPT !.el[1] = Store(out.f32, ToDegree(alpha)),
                     !.el[2] = Store(out.f32, ToDegree(beta)),
                     !.el[3] = Store(out.f32, ToDegree(gamma))]
  ELSE IF degOrRad = "rad"
    THEN [out EXCEPT !.el[1] = Store(out.f32, alpha),
                     !.el[2] = Store(out.f32, beta),
                     !.el[3] = Store(out.f32, gamma)]
  ELSE out
\* out after the unit branches of quaternionToEuler
EulerWritten(out, gamma, beta, alpha, degOrRad) ==
  IF degOrRad = "deg"
    THEN [out EXCEPT !.el[1] = Store(out.f32, ToDegree(gamma)),
                     !.el[2] = Store(out.f32, ToDegree(beta)),
                     !.el[3] = Store(out.f32, ToDegree(alpha))]
  ELSE IF degOrRad = "rad"
    THEN [out EXCEPT !.el[1] = Store(out.f32, gamma),
                     !.el[2] = Store(out.f32, beta),
                     !.el[3] = Store(out.f32, alpha)]
  ELSE out

EulerOf(out, x, y, z, w, degOrRad) ==
  EulerWritten(out, EulerGamma(x, y, z, w), EulerBeta(x, y, z, w),
               EulerAlpha(x, y, z, w), degOrRad)
\* quaternionToEuler normalizing quat in place first, as quaternionToAxisAngle
\* does: C11 tells quaternionToEuler from it
EulerOfNormalized(out, quat, degOrRad) ==
  [out |-> EulerOf(out, quat.el[1], quat.el[2], quat.el[3], quat.el[4], degOrRad),
   quat |-> [quat EXCEPT !.el = StoreAll(quat.f32, QuatNormalize(quat.el))],
   ret |-> "out", err |-> "none"]
quaternionToEuler(out, quat, degOrRad) ==
  [out |-> EulerOf(out, quat.el[1], quat.el[2], quat.el[3], quat.el[4], degOrRad),
   quat |-> quat, ret |-> "out", err |-> "none"]

\* q after quat.normalize(q, q)
NormalizedInPlace(q) == [q EXCEPT !.el = StoreAll(q.f32, QuatNormalize(q.el))]

\* quaternionToAxisAngle once the axis is written (axisOut) and rad returned
AngleWritten(qn, out, axisOut, rad, degOrRad) ==
  IF degOrRad = "deg"
    THEN [q |-> qn, out |-> [axisOut EXCEPT !.el[4] = Store(out.f32, ToDegree(rad))],
          ret |-> "out", err |-> "none"]
  ELSE IF degOrRad = "rad"
    THEN [q |-> qn, out |-> [axisOut EXCEPT !.el[4] = Store(out.f32, rad)],
          ret |-> "out", err |-> "none"]
  ELSE [q |-> qn, out |-> axisOut, ret |-> "none", err |-> InvalidUnit]
\* ... once quat.getAxisAngle(out, q) gave aa
AxisWritten(qn, out, aa, degOrRad) ==
  AngleWritten(qn, out,
               [out EXCEPT !.el[1] = Store(out.f32, aa.axis[1]),
                           !.el[2] = Store(out.f32, aa.axis[2]),
                           !.el[3] = Store(out.f32, aa.axis[3])],
               aa.rad, degOrRad)
\* ... once q is normalized
AxisAngleOf(qn, out, degOrRad) == AxisWritten(qn, out, QuatGetAxisAngle(qn.el), degOrRad)

quaternionToAxisAngle(out, q, degOrRad) == AxisAngleOf(NormalizedInPlace(q), out, degOrRad)

\* the matrix of the conjugate quaternion (the transpose): C9 tells MatrixOf from it
Transposed(t) == [n \in 1..9 |-> t[3 * ((n - 1) % 3) + ((n - 1) \div 3) + 1]]
MatrixOfConjugate(qn) ==
  [q |-> qn, ret |-> Typed(Transposed(Mat3FromQuat(qn.el))), err |-> "none"]
\* quaternionToMatrix without the test of line 56: C6 tells quaternionToMatrix from it
AlwaysNormalized(q) ==
  [q |-> NormalizedInPlace(q), ret |-> Typed(Mat3FromQuat(NormalizedInPlace(q).el)),
   err |-> "none"]
MatrixOf(qn) == [q |-> qn, ret |-> Typed(Mat3FromQuat(qn.el)), err |-> "none"]
quaternionToMatrix(q) ==
  IF FEq(q.el[1], q.el[2]) /\ FEq(q.el[2], q.el[3]) /\ FEq(q.el[3], Zero)
    THEN [q |-> q, ret |-> Mat3Create, err |-> "none"]
  ELSE MatrixOf(NormalizedInPlace(q))

\* axisAngleToQuaternion once the axis is normalized
QuaternionAbout(axis, angle, degOrRad) ==
  IF degOrRad = "deg"
    THEN [ret |-> Typed(QuatNormalize(
                    StoreAll(TRUE, QuatSetAxisAngle(axis, ToRadian(angle))))),
          err |-> "none"]
  ELSE IF degOrRad = "rad"
    THEN [ret |-> Typed(QuatNormalize(StoreAll(TRUE, QuatSetAxisAngle(axis, angle)))),
          err |-> "none"]
  ELSE [ret |-> "none", err |-> InvalidUnit]
axisAngleToQuaternion(x, y, z, angle, degOrRad) ==
  QuaternionAbout(StoreAll(TRUE, Vec3Normalize(Typed(<<x, y, z>>).el)), angle, degOrRad)

\* eulerToQuaternion handing (alpha, beta, gamma) to quat.fromEuler in that order:
\* C12 tells eulerToQuaternion from it
EulerUnreversed(alpha, beta, gamma, degOrRad) ==
  IF degOrRad = "deg"
    THEN [ret |-> Typed(QuatNormalize(StoreAll(TRUE, QuatFromEuler(alpha, beta, gamma)))),
          err |-> "none"]
  ELSE IF degOrRad = "rad"
    THEN [ret |-> Typed(QuatNormalize(StoreAll(TRUE,
                    QuatFromEuler(ToDegree(alpha), ToDegree(beta), ToDegree(gamma))))),
          err |-> "none"]
  ELSE [ret |-> "none", err |-> InvalidUnit]
eulerToQuaternion(alpha, beta, gamma, degOrRad) ==
  IF degOrRad = "deg"
    THEN [ret |-> Typed(QuatNormalize(StoreAll(TRUE, QuatFromEuler(gamma, beta, alpha)))),
          err |-> "none"]
  ELSE IF degOrRad = "rad"
    THEN [ret |-> Typed(QuatNormalize(StoreAll(TRUE,
                    QuatFromEuler(ToDegree(gamma), ToDegree(beta), ToDegree(alpha))))),
          err |-> "none"]
  ELSE [ret |-> "none", err |-> InvalidUnit]

\* matrixToQuaternion without the quat.normalize of line 99: C7 tells
\* matrixToQuaternion from it
FromMat3Only(m) == [ret |-> Typed(QuatFromMat3(m.el)), err |-> "none"]
matrixToQuaternion(m) ==
  [ret |-> Typed(QuatNormalize(StoreAll(TRUE, QuatFromMat3(m.el)))), err |-> "none"]

\* the angle matrixToAxisAngle computes
MatrixAngle(m) ==
  FAcos(MathMin(MathMax(FDiv(FSub(FAdd(FAdd(m[1], m[5]), m[9]), One), Two),
                        FNeg(One)), One))

NearZero(angle) == FLt(MathAbs(angle), EPSILON)
NearPi(angle) == FLt(MathAbs(FSub(PI, angle)), EPSILON)

\* sqrt((d + 1) / 2) for the diagonal element d, and an off-diagonal sum over
\* twice that root
PivotRoot(d) == FSqrt(FDiv(FAdd(d, One), Two))
OverTwice(s, root) == FDiv(s, FMul(Two, root))

\* the axis of the branch for an angle close to 180 degrees
PivotX(m, x) == <<x, OverTwice(m[4], x), OverTwice(m[7], x)>>
PivotY(m, y) == <<OverTwice(m[4], y), y, OverTwice(m[8], y)>>
PivotZ(m, z) == <<OverTwice(m[7], z), OverTwice(m[8], z), z>>
\* the first pivot whatever the diagonal: C5 tells PivotAxis from it
PivotFirst(m) == PivotX(m, PivotRoot(m[1]))
PivotAxis(m) ==
  IF FGe(m[1], m[5]) /\ FGe(m[1], m[9]) THEN PivotX(m, PivotRoot(m[1]))
  ELSE IF FGe(m[5], m[1]) /\ FGe(m[5], m[9]) THEN PivotY(m, PivotRoot(m[5]))
  ELSE PivotZ(m, PivotRoot(m[9]))

\* the axis of the general branch, s = 2 sin(angle)
SkewAxis(m, s) ==
  <<FDiv(FSub(m[6], m[8]), s), FDiv(FSub(m[7], m[3]), s), FDiv(FSub(m[2], m[4]), s)>>
\* the axis without the default of lines 111-115: C10 tells MatrixAxis from it
MatrixAxisUndefaulted(m, angle) ==
  IF NearPi(angle) THEN PivotAxis(m) ELSE SkewAxis(m, FMul(Two, FSin(angle)))
MatrixAxis(m, angle) ==
  IF NearZero(angle) THEN <<One, Zero, Zero>>
  ELSE IF NearPi(angle) THEN PivotAxis(m)
  ELSE SkewAxis(m, FMul(Two, FSin(angle)))

\* matrixToAxisAngle once out[0..2] are written (axisOut)
MatrixAngleWritten(out, axisOut, angle, degOrRad) ==
  IF degOrRad = "deg"
    THEN [out |-> [axisOut EXCEPT !.el[4] = Store(out.f32, ToDegree(angle))],
          ret |-> "out", err |-> "none"]
  ELSE IF degOrRad = "rad"
    THEN [out |-> [axisOut EXCEPT !.el[4] = Store(out.f32, angle)],
          ret |-> "out", err |-> "none"]
  ELSE [out |-> axisOut, ret |-> "none", err |-> InvalidUnit]
\* ... once the axis is computed
MatrixAxisWritten(out, axis, angle, degOrRad) ==
  MatrixAngleWritten(out,
                     [out EXCEPT !.el[1] = Store(out.f32, axis[1]),
                                 !.el[2] = Store(out.f32, axis[2]),
                                 !.el[3] = Store(out.f32, axis[3])],
                     angle, degOrRad)
\* ... once the angle is computed
MatrixAxisAngleOf(out, m, angle, degOrRad) ==
  MatrixAxisWritten(out, MatrixAxis(m, angle), angle, degOrRad)

matrixToAxisAngle(out, m, degOrRad) ==
  MatrixAxisAngleOf(out, m.el, MatrixAngle(m.el), degOrRad)
(***************************************************************************)
(* A caller of the conversion functions.  It holds one object of each      *)
(* representation: the quaternion q, the matrix m, the vec3 euler and the  *)
(* vec4 axisAngle that receive results.  It is given one representation,   *)
(* converts it, and converts what it obtained once more (the way back of a *)
(* round trip, or the next output of updateEquivalents); an error ends it. *)
(* have: the representation obtained last.  last, prev: the last call and  *)
(* the one before, each with the objects as they were before the call.     *)
(***************************************************************************)
VARIABLES q, m, euler, axisAngle, have, last, prev, page

vars == <<q, m, euler, axisAngle, have, last, prev, page>>

Units == {"deg", "rad", "grad"}

\* a/b as the Number the expression evaluates to
Ratio(a, b) == FDiv(FromInt(a), FromInt(b))
\* 2^664, about 7.6e199: finite, its square is not
Huge == <<134217728, 637>>

\* src/main.js getQuaternionFromInputs: quat.fromValues, then quat.normalize
getQuaternionFromInputs(qx, qy, qz, qw) ==
  Typed(QuatNormalize(Typed(<<qx, qy, qz, qw>>).el))

\* src/main.js isValidRotationMatrix(r), r a Float32Array: mat3.transpose and
\* mat3.multiply give the dot products of r's columns, stored as Float32
Dot3(r, i, j) ==
  FAdd(FAdd(FMul(r[3 * j + 1], r[3 * i + 1]), FMul(r[3 * j + 2], r[3 * i + 2])),
       FMul(r[3 * j + 3], r[3 * i + 3]))
TransposeTimes(r) == StoreAll(TRUE, [n \in 1..9 |-> Dot3(r, (n - 1) % 3, (n - 1) \div 3)])
Mat3Determinant(a) ==
  FAdd(FAdd(FMul(a[1], FSub(FMul(a[9], a[5]), FMul(a[6], a[8]))),
            FMul(a[2], FAdd(FMul(FNeg(a[9]), a[4]), FMul(a[6], a[7])))),
       FMul(a[3], FSub(FMul(a[8], a[4]), FMul(a[5], a[7]))))
Mat3Equals(a, b) ==
  \A n \in 1..9 :
    FLe(FAbs(FSub(a[n], b[n])),
        FMul(EPSILON, MathMax(One, MathMax(FAbs(a[n]), FAbs(b[n])))))
isValidRotationMatrix(r) ==
  ~(\/ ~Mat3Equals(TransposeTimes(r), Mat3Create.el)
    \/ FLt(Mat3Determinant(r), Ratio(999, 1000))
    \/ FGt(Mat3Determinant(r), Ratio(1001, 1000)))
\* src/main.js getMatrixFromInputs: the values read pass its check
AcceptedMatrix(values) == isValidRotationMatrix(StoreAll(TRUE, values))
Nums(t) == [i \in DOMAIN t |-> FromInt(t[i])]
Over(t, d) == [i \in DOMAIN t |-> Ratio(t[i], d)]
Prefix(list, n) == {list[i] : i \in 1..Min(n, Len(list))}

\* how many entries of each list below are given to the caller
NumQuatFields == 12
NumQuatArrays == 6
NumMatrices == 12
NumAxes == 6
NumAngles == 7
NumEulers == 5

\* (qx, qy, qz, qw) as typed into the quaternion fields
QuatFields ==
  << Nums(<<0, 0, 0, 1>>), Nums(<<0, 1, 0, 1>>), Nums(<<1, 1, -1, 1>>),
     Nums(<<1, -1, 1, 1>>), Nums(<<1, 2, 3, 4>>), Nums(<<0, 0, 1, 1>>),
     Nums(<<1, 0, 0, 1>>), Nums(<<0, 0, 0, -1>>), Nums(<<2, -1, 2, 0>>),
     Over(<<1, 0, 0, 5000>>, 5000), Nums(<<0, 0, 0, 0>>), Nums(<<-1, 2, 0, 3>>),
     Over(<<0, -1, 0, -4000>>, 4000), Nums(<<3, -1, -2, 1>>) >>

\* quaternions handed over as plain Arrays [x, y, z, w], not normalized
QuatArrays ==
  << Nums(<<0, 1, 0, 1>>), Nums(<<0, -1, 0, 1>>), Nums(<<0, 0, 0, 2>>),
     Nums(<<0, 0, 0, 0>>), <<Huge, Huge, Huge, Huge>>, Over(<<3, 0, 0, 4>>, 5),
     Nums(<<1, 2, 3, 4>>), Over(<<1, 1, 1, 1>>, 2) >>

\* matrices as plain Arrays, column by column (src/main.js getMatrixFromInputs)
Matrices ==
  << Nums(<<1, 0, 0, 0, 1, 0, 0, 0, 1>>), Nums(<<-1, 0, 0, 0, 1, 0, 0, 0, -1>>),
     Nums(<<1, 0, 0, 0, -1, 0, 0, 0, -1>>), Nums(<<-1, 0, 0, 0, -1, 0, 0, 0, 1>>),
     Nums(<<0, 1, 0, 1, 0, 0, 0, 0, -1>>), Nums(<<-1, 0, 0, 0, 0, 1, 0, 1, 0>>),
     Over(<<-1, 2, 2, 2, -1, 2, 2, 2, -1>>, 3), Nums(<<0, 1, 0, -1, 0, 0, 0, 0, 1>>),
     Nums(<<0, 1, 0, 0, 0, 1, 1, 0, 0>>), Nums(<<1, 0, 0, 0, 0, 1, 0, -1, 0>>),
     Nums(<<0, 0, 0, 0, 0, 0, 0, 0, 0>>),
     <<Huge, Zero, Zero, Zero, Huge, Zero, Zero, Zero, Huge>>,
     Nums(<<0, 0, 1, 0, -1, 0, 1, 0, 0>>), Over(<<1, 2, 2, 2, -2, 1, 2, 1, -2>>, 3) >>

\* (x, y, z) and angle as typed into the axis-angle fields
Axes ==
  << Nums(<<1, 0, 0>>), Nums(<<0, 1, 0>>), Nums(<<0, 0, 0>>), Nums(<<0, 0, 1>>),
     Nums(<<1, 2, -2>>), <<Huge, Zero, Zero>>, Nums(<<1, 1, 1>>), Nums(<<-3, 0, 4>>) >>
Angles ==
  << Zero, FromInt(90), FromInt(180), PI, HalfPI, FromInt(-90), Ratio(1, 50),
     FromInt(360), FromInt(45) >>

\* (alpha, beta, gamma) as typed into the Euler fields
Eulers ==
  << Nums(<<0, 0, 0>>), Nums(<<90, 0, 0>>), Nums(<<0, 90, 0>>), Nums(<<30, 45, 60>>),
     <<HalfPI, Zero, PI>>, Nums(<<0, 0, 90>>), Nums(<<10, -20, 30>>) >>

QuatInputs ==
  {getQuaternionFromInputs(v[1], v[2], v[3], v[4]) : v \in Prefix(QuatFields, NumQuatFields)}
    \cup {Plain(v) : v \in Prefix(QuatArrays, NumQuatArrays)}
MatInputs == {Plain(v) : v \in Prefix(Matrices, NumMatrices)}
AxisAngleInputs ==
  {<<a[1], a[2], a[3], t>> : a \in Prefix(Axes, NumAxes), t \in Prefix(Angles, NumAngles)}
EulerInputs == Prefix(Eulers, NumEulers)

(***************************************************************************)
(* src/main.js: the page.  page holds what the handlers read and write:    *)
(* selected (rotationType.value), fields (what parseInput gives for the    *)
(* inputs of each group, or Unparsable when math.evaluate rejects one),    *)
(* units (the four deg/rad selectors), errorText, outText (the four        *)
(* outputs), inputShown and outputShown (which groups are displayed; an    *)
(* input group is editable exactly when displayed, lines 161-175), and of  *)
(* the event handled last: calls (the functions of conversion.js it        *)
(* called, with what they were given), uncaught (the message of an        *)
(* exception that left the handler, "none" otherwise) and handled (which   *)
(* event it was).  targetQ is the renderer's target rotation, events the   *)
(* number of events handled.                                               *)
(***************************************************************************)
Types == {"axis-angle", "euler", "quaternion", "matrix"}
\* what parseInput gives for a group of which one text is rejected: no values
Unparsable == <<>>
\* the messages of the errors thrown in lines 24, 34 and 83
InvalidAxis == "Invalid axis: zero vector"
InvalidMatrix == "Invalid rotation matrix"
InvalidInput == "Invalid input"

\* Number.prototype.toFixed(digits) as <<n, digits>>, standing for the text of
\* n / 10^digits; NaN and the infinities as <<0, -1>>, <<1, -1>>, <<-1, -1>>
ToFixed(x, digits) ==
  IF IsFinite(x) THEN <<NearestInt(FMul(x, FromInt(10^digits))), digits>>
  ELSE <<x[1], -1>>
\* parseFloat of such a text
ParseFloat(text) ==
  IF text[2] >= 0 THEN Ratio(text[1], 10^text[2])
  ELSE <<text[1], SpecialExp>>
\* formatVec(arr, digits), digits one for each element
formatVec(arr, digits) == [i \in DOMAIN arr |-> ToFixed(arr[i], digits[i])]
\* formatMatrix(mat): the rows of the column-major mat
formatMatrix(mat) ==
  [n \in 1..9 |-> ToFixed(mat[3 * ((n - 1) % 3) + ((n - 1) \div 3) + 1], 4)]
\* the digits of an angle shown in the unit chosen
AngleDigits(degOrRad) == IF degOrRad = "deg" THEN 2 ELSE 4

DefaultTexts ==
  [t \in Types |->
     CASE t = "axis-angle" -> formatVec(Nums(<<1, 0, 0, 0>>), <<4, 4, 4, 4>>)
       [] t = "euler" -> formatVec(Nums(<<0, 0, 0>>), <<4, 4, 4>>)
       [] t = "quaternion" -> formatVec(Nums(<<0, 0, 0, 1>>), <<4, 4, 4, 4>>)
       [] t = "matrix" -> formatMatrix(Nums(<<1, 0, 0, 0, 1, 0, 0, 0, 1>>))]
\* setOutputsToDefault()
setOutputsToDefault(p) == [p EXCEPT !.outText = DefaultTexts]

\* a called function and what it was given
Made(fn, args) == [fn |-> fn, args |-> args]
\* the catch blocks of updateEquivalents: the message shown, the outputs reset
Rejected(p, message) == setOutputsToDefault([p EXCEPT !.errorText = message])
\* an exception no handler catches
Thrown(p, message) == [p EXCEPT !.uncaught = message]

\* the decimal places formatVec is given for an axis and angle, and for angles
AxisAngleDigits(degOrRad) == <<4, 4, 4, AngleDigits(degOrRad)>>
EulerDigits(degOrRad) ==
  <<AngleDigits(degOrRad), AngleDigits(degOrRad), AngleDigits(degOrRad)>>

\* setTargetRotation(q) of src/conversion.js: quat.copy(targetQ, q)
setTargetRotation(p, quatn) ==
  [p EXCEPT !.targetQ = quatn.el,
            !.calls = Append(@, Made("setTargetRotation", quatn.el))]

\* getAxisAngleInputs() without the test of line 33: C13 tells
\* getAxisAngleInputs from it
AxisAngleUnchecked(v) ==
  IF v = Unparsable THEN [ret |-> <<>>, err |-> InvalidInput]
  ELSE [ret |-> v, err |-> "none"]
\* getAxisAngleInputs(), v what the four fields hold
getAxisAngleInputs(v) ==
  IF v = Unparsable THEN [ret |-> <<>>, err |-> InvalidInput]
  ELSE IF FEq(v[1], Zero) /\ FEq(v[2], Zero) /\ FEq(v[3], Zero)
    THEN [ret |-> <<>>, err |-> InvalidAxis]
  ELSE [ret |-> v, err |-> "none"]
\* getEulerInputs()
getEulerInputs(v) ==
  IF v = Unparsable THEN [ret |-> <<>>, err |-> InvalidInput]
  ELSE [ret |-> v, err |-> "none"]
\* getQuaternionFromInputs() with its calls of parseInput
QuaternionRead(v) ==
  IF v = Unparsable THEN [ret |-> QuatCreate, err |-> InvalidInput]
  ELSE [ret |-> getQuaternionFromInputs(v[1], v[2], v[3], v[4]), err |-> "none"]
\* getMatrixFromInputs(): the nine values in column-major order
getMatrixFromInputs(v) ==
  IF v = Unparsable THEN [ret |-> <<>>, err |-> InvalidInput]
  ELSE IF ~AcceptedMatrix(v) THEN [ret |-> <<>>, err |-> InvalidMatrix]
  ELSE [ret |-> v, err |-> "none"]

\* updateEquivalents("axis-angle"), lines 194-216: quatn what
\* axisAngleToQuaternion returned, eul what quaternionToEuler wrote
AxisAngleShown(p, v, quatn, eul) ==
  setTargetRotation(
    [p EXCEPT !.outText["quaternion"] = formatVec(quatn.el, <<4, 4, 4, 4>>),
              !.outText["matrix"] = formatMatrix(StoreAll(TRUE, Mat3FromQuat(quatn.el))),
              !.outText["euler"] = formatVec(eul.el, EulerDigits(p.units.eulerOut)),
              !.calls = <<Made("axisAngleToQuaternion", v),
                          Made("quaternionToEuler", quatn.el)>>],
    quatn)
AxisAngleConverted(p, v, quatn) ==
  AxisAngleShown(p, v, quatn, quaternionToEuler(Vec3Create, quatn, p.units.eulerOut).out)
FromAxisAngle(p, r) ==
  IF r.err # "none" THEN Rejected(p, r.err)
  ELSE AxisAngleConverted(p, r.ret,
         axisAngleToQuaternion(r.ret[1], r.ret[2], r.ret[3], r.ret[4], p.units.axisIn).ret)

\* updateEquivalents("euler"), lines 218-242: getEulerInputs is in no try
\* block; rm what quaternionToMatrix gave, ra what quaternionToAxisAngle gave,
\* each with the quaternion as it left it
EulerShown(p, v, quatn, rm, ra) ==
  setTargetRotation(
    [p EXCEPT !.outText["quaternion"] = formatVec(ra.q.el, <<4, 4, 4, 4>>),
              !.outText["matrix"] = formatMatrix(rm.ret.el),
              !.outText["axis-angle"] =
                 formatVec(ra.out.el, AxisAngleDigits(p.units.axisOut)),
              !.calls = <<Made("eulerToQuaternion", v),
                          Made("quaternionToMatrix", quatn.el),
                          Made("quaternionToAxisAngle", rm.q.el)>>],
    ra.q)
EulerToAxisAngle(p, v, quatn, rm) ==
  EulerShown(p, v, quatn, rm, quaternionToAxisAngle(Vec4Create, rm.q, p.units.axisOut))
EulerConverted(p, v, quatn) == EulerToAxisAngle(p, v, quatn, quaternionToMatrix(quatn))
FromEuler(p, r) ==
  IF r.err # "none" THEN Thrown(p, r.err)
  ELSE EulerConverted(p, r.ret,
         eulerToQuaternion(r.ret[1], r.ret[2], r.ret[3], p.units.eulerIn).ret)

\* updateEquivalents("quaternion"), lines 244-281
QuaternionShown(p, quatn, rm, ra, eul) ==
  setTargetRotation(
    [p EXCEPT !.outText["matrix"] = formatMatrix(rm.ret.el),
              !.outText["axis-angle"] =
                 formatVec(ra.out.el, AxisAngleDigits(p.units.axisOut)),
              !.outText["euler"] = formatVec(eul.el, EulerDigits(p.units.eulerOut)),
              !.calls = <<Made("quaternionToMatrix", quatn.el),
                          Made("quaternionToAxisAngle", rm.q.el),
                          Made("quaternionToEuler", ra.q.el)>>],
    ra.q)
QuaternionAngles(p, quatn, rm, ra) ==
  QuaternionShown(p, quatn, rm, ra,
                  quaternionToEuler(Vec3Create, ra.q, p.units.eulerOut).out)
QuaternionAxis(p, quatn, rm) ==
  QuaternionAngles(p, quatn, rm,
                    quaternionToAxisAngle(Vec4Create, rm.q, p.units.axisOut))
FromQuaternion(p, r) ==
  IF r.err # "none" THEN Rejected(p, r.err)
  ELSE QuaternionAxis(p, r.ret, quaternionToMatrix(r.ret))

\* updateEquivalents("matrix"), lines 283-322: v the array getMatrixFromInputs
\* returned
MatrixShown(p, v, quatn, ra, eul) ==
  setTargetRotation(
    [p EXCEPT !.outText["quaternion"] = formatVec(quatn.el, <<4, 4, 4, 4>>),
              !.outText["axis-angle"] =
                 formatVec(ra.out.el, AxisAngleDigits(p.units.axisOut)),
              !.outText["euler"] = formatVec(eul.el, EulerDigits(p.units.eulerOut)),
              !.calls = <<Made("matrixToQuaternion", v),
                          Made("matrixToAxisAngle", v),
                          Made("quaternionToEuler", quatn.el)>>],
    quatn)
MatrixConverted(p, v, quatn) ==
  MatrixShown(p, v, quatn,
              matrixToAxisAngle(Vec4Create, Plain(v), p.units.axisOut),
              quaternionToEuler(Vec3Create, quatn, p.units.eulerOut).out)
FromMatrix(p, r) ==
  IF r.err # "none" THEN Rejected(p, r.err)
  ELSE MatrixConverted(p, r.ret, matrixToQuaternion(Plain(r.ret)).ret)

updateEquivalents(p) ==
  CASE p.selected = "axis-angle" -> FromAxisAngle(p, getAxisAngleInputs(p.fields["axis-angle"]))
    [] p.selected = "euler" -> FromEuler(p, getEulerInputs(p.fields["euler"]))
    [] p.selected = "quaternion" -> FromQuaternion(p, QuaternionRead(p.fields["quaternion"]))
    [] p.selected = "matrix" -> FromMatrix(p, getMatrixFromInputs(p.fields["matrix"]))

\* updateGroups(), lines 169-175: only the selected input group is displayed
InputGroupsSet(p) == [p EXCEPT !.inputShown = [t \in Types |-> t = p.selected]]
\* ... lines 179-181, reached when updateEquivalents returned
OutputGroupsSet(p) ==
  IF p.uncaught # "none" THEN p
  ELSE [p EXCEPT !.outputShown = [t \in Types |-> t # p.selected]]
updateGroups(p) == OutputGroupsSet(updateEquivalents(InputGroupsSet(p)))

\* the change handlers of the output selectors, lines 339-379: the text shown
\* is parsed and converted to the unit chosen
Reshown(text, degOrRad) ==
  IF degOrRad = "deg" THEN ToFixed(ToDegree(ParseFloat(text)), 2)
  ELSE ToFixed(ToRadian(ParseFloat(text)), 4)
AxisAngleOutputUnitChanged(p) ==
  IF p.selected = "axis-angle" THEN p
  ELSE [p EXCEPT !.outText["axis-angle"][4] = Reshown(@, p.units.axisOut)]
EulerOutputUnitChanged(p) ==
  IF p.selected = "euler" THEN p
  ELSE [p EXCEPT !.outText["euler"] =
                   [i \in 1..3 |-> Reshown(@[i], p.units.eulerOut)]]

\* what is typed into the fields of a group: the first is what index.html
\* serves, Unparsable a text math.evaluate rejects
DefaultAxisAngle == Nums(<<0, 0, 1, 90>>)
DefaultEuler == Nums(<<30, 45, 60>>)
DefaultQuaternion == Nums(<<0, 0, 0, 1>>)
DefaultMatrix == Nums(<<1, 0, 0, 0, 1, 0, 0, 0, 1>>)
FieldChoices ==
  [t \in Types |->
     CASE t = "axis-angle" -> {DefaultAxisAngle, Nums(<<0, 0, 0, 90>>), Unparsable}
       [] t = "euler" -> {DefaultEuler, Unparsable}
       [] t = "quaternion" -> {DefaultQuaternion, Nums(<<1, 2, 2, 4>>), Unparsable}
       [] t = "matrix" -> {DefaultMatrix, Nums(<<0, 1, 0, -1, 0, 0, 0, 0, 1>>),
                           Nums(<<2, 0, 0, 0, 2, 0, 0, 0, 2>>), Unparsable}]
DefaultFields ==
  [t \in Types |->
     CASE t = "axis-angle" -> DefaultAxisAngle
       [] t = "euler" -> DefaultEuler
       [] t = "quaternion" -> DefaultQuaternion
       [] t = "matrix" -> DefaultMatrix]

\* the page when the script starts, rotationType at t: every group displayed,
\* the four selectors at "deg", no event handled
Served(t) ==
  [selected |-> t,
   fields |-> DefaultFields,
   units |-> [axisIn |-> "deg", eulerIn |-> "deg", axisOut |-> "deg", eulerOut |-> "deg"],
   errorText |-> "",
   outText |-> DefaultTexts,
   inputShown |-> [g \in Types |-> TRUE],
   outputShown |-> [g \in Types |-> TRUE],
   calls |-> <<>>,
   uncaught |-> "none",
   handled |-> "load",
   targetQ |-> QuatCreate.el,
   events |-> 0]
\* a handler starts: nothing called yet, nothing thrown
Handling(p, event) ==
  [p EXCEPT !.calls = <<>>, !.uncaught = "none", !.handled = event, !.events = @ + 1]
\* the other option of a deg/rad selector
Other(degOrRad) == IF degOrRad = "deg" THEN "rad" ELSE "deg"
\* how many events a session of the page handles
MaxEvents == 3

\* the objects a call can change, as they are now
Snapshot == [q |-> q, m |-> m, euler |-> euler, axisAngle |-> axisAngle]
Call(fn, degOrRad, args, ret, err) ==
  [fn |-> fn, degOrRad |-> degOrRad, args |-> args, ret |-> ret, err |-> err,
   pre |-> Snapshot]
NoCall == Call("none", "none", <<>>, "none", "none")

Init ==
  /\ have \in {"quaternion", "matrix", "scalars"}
  /\ q \in (IF have = "quaternion" THEN QuatInputs ELSE {QuatCreate})
  /\ m \in (IF have = "matrix" THEN MatInputs ELSE {Mat3Create})
  /\ euler = [f32 |-> q.f32, el |-> Vec3Create.el]
  /\ axisAngle = [f32 |-> q.f32, el |-> Vec4Create.el]
  /\ last = NoCall
  /\ prev = NoCall
  /\ page = updateGroups(Served("quaternion"))

\* a call can follow: fewer than two were made and none threw
Callable == prev.fn = "none" /\ last.err = "none"

\* quaternionToEuler(euler, q, degOrRad) gave r
ReturnedEuler(r, degOrRad) ==
  /\ euler' = r.out
  /\ q' = r.quat
  /\ last' = Call("quaternionToEuler", degOrRad, <<>>, r.ret, r.err)
CallQuaternionToEuler ==
  /\ Callable
  /\ have = "quaternion"
  /\ \E degOrRad \in Units : ReturnedEuler(quaternionToEuler(euler, q, degOrRad), degOrRad)
  /\ have' = "euler"
  /\ prev' = last
  /\ UNCHANGED <<m, axisAngle, page>>

\* quaternionToAxisAngle(axisAngle, q, degOrRad) gave r
ReturnedAxisAngle(r, degOrRad) ==
  /\ q' = r.q
  /\ axisAngle' = r.out
  /\ last' = Call("quaternionToAxisAngle", degOrRad, <<>>, r.ret, r.err)
CallQuaternionToAxisAngle ==
  /\ Callable
  /\ have = "quaternion"
  /\ \E degOrRad \in Units :
       ReturnedAxisAngle(quaternionToAxisAngle(axisAngle, q, degOrRad), degOrRad)
  /\ have' = "axisAngle"
  /\ prev' = last
  /\ UNCHANGED <<m, euler, page>>

\* const mat = quaternionToMatrix(q) gave r
ReturnedMatrix(r) ==
  /\ q' = r.q
  /\ m' = r.ret
  /\ last' = Call("quaternionToMatrix", "none", <<>>, "new", r.err)
CallQuaternionToMatrix ==
  /\ Callable
  /\ have = "quaternion"
  /\ ReturnedMatrix(quaternionToMatrix(q))
  /\ have' = "matrix"
  /\ prev' = last
  /\ UNCHANGED <<euler, axisAngle, page>>

\* const q = fn(...args, degOrRad) gave r, or threw
ReturnedQuaternion(r, fn, degOrRad, args) ==
  /\ q' = IF r.err = "none" THEN r.ret ELSE q
  /\ last' = Call(fn, degOrRad, args, IF r.err = "none" THEN "new" ELSE "none", r.err)

\* const q = axisAngleToQuaternion(x, y, z, angle, degOrRad), of the fields' values or
\* of the four elements a conversion to axis-angle wrote
CallAxisAngleToQuaternion ==
  /\ Callable
  /\ have \in {"scalars", "axisAngle"}
  /\ \E a \in (IF have = "scalars" THEN AxisAngleInputs ELSE {axisAngle.el}),
        degOrRad \in Units :
       ReturnedQuaternion(axisAngleToQuaternion(a[1], a[2], a[3], a[4], degOrRad),
                          "axisAngleToQuaternion", degOrRad, a)
  /\ have' = "quaternion"
  /\ prev' = last
  /\ UNCHANGED <<m, euler, axisAngle, page>>

\* const q = eulerToQuaternion(alpha, beta, gamma, degOrRad), of the fields' values or
\* of what quaternionToEuler wrote: out[2] is alpha, out[1] beta, out[0] gamma
CallEulerToQuaternion ==
  /\ Callable
  /\ have \in {"scalars", "euler"}
  /\ \E e \in (IF have = "scalars" THEN EulerInputs
               ELSE {<<euler.el[3], euler.el[2], euler.el[1]>>}),
        degOrRad \in Units :
       ReturnedQuaternion(eulerToQuaternion(e[1], e[2], e[3], degOrRad),
                          "eulerToQuaternion", degOrRad, e)
  /\ have' = "quaternion"
  /\ prev' = last
  /\ UNCHANGED <<m, euler, axisAngle, page>>

\* const q = matrixToQuaternion(m)
CallMatrixToQuaternion ==
  /\ Callable
  /\ have = "matrix"
  /\ ReturnedQuaternion(matrixToQuaternion(m), "matrixToQuaternion", "none", <<>>)
  /\ have' = "quaternion"
  /\ prev' = last
  /\ UNCHANGED <<m, euler, axisAngle, page>>

\* matrixToAxisAngle(axisAngle, m, degOrRad) gave r
ReturnedMatrixAxisAngle(r, degOrRad) ==
  /\ axisAngle' = r.out
  /\ last' = Call("matrixToAxisAngle", degOrRad, <<>>, r.ret, r.err)
CallMatrixToAxisAngle ==
  /\ Callable
  /\ have = "matrix"
  /\ \E degOrRad \in Units :
       ReturnedMatrixAxisAngle(matrixToAxisAngle(axisAngle, m, degOrRad), degOrRad)
  /\ have' = "axisAngle"
  /\ prev' = last
  /\ UNCHANGED <<q, m, euler, page>>

Next ==
  \/ CallQuaternionToEuler
  \/ CallQuaternionToAxisAngle
  \/ CallQuaternionToMatrix
  \/ CallAxisAngleToQuaternion
  \/ CallEulerToQuaternion
  \/ CallMatrixToQuaternion
  \/ CallMatrixToAxisAngle

Spec == Init /\ [][Next]_vars

(***************************************************************************)
(* The page's events.  The caller above makes no call meanwhile.           *)
(***************************************************************************)
\* line 381: updateGroups() when the script starts
UiInit ==
  /\ have = "scalars"
  /\ q = QuatCreate
  /\ m = Mat3Create
  /\ euler = Vec3Create
  /\ axisAngle = Vec4Create
  /\ last = NoCall
  /\ prev = NoCall
  /\ \E t \in Types : page = updateGroups(Served(t))

MoreEvents == page.events < MaxEvents

\* line 327: rotationType changes to t
ChangeRotationType ==
  /\ MoreEvents
  /\ \E t \in Types \ {page.selected} :
       page' = updateGroups([Handling(page, "change") EXCEPT !.selected = t])
  /\ UNCHANGED <<q, m, euler, axisAngle, have, last, prev>>

\* lines 7-9 and 331: v is typed into the fields of the selected group, the
\* only ones not read-only; the input's listener clears the message, the
\* group's calls updateGroups
InputEvent ==
  /\ MoreEvents
  /\ page.inputShown[page.selected]
  /\ \E v \in FieldChoices[page.selected] \ {page.fields[page.selected]} :
       page' = updateGroups([Handling(page, "input") EXCEPT !.fields[page.selected] = v,
                                                            !.errorText = ""])
  /\ UNCHANGED <<q, m, euler, axisAngle, have, last, prev>>

\* line 331: the selector axis-angle-degRad or euler-degRad, inside its group,
\* changes
ChangeInputUnit ==
  /\ MoreEvents
  /\ \/ page' = updateGroups([Handling(page, "unit") EXCEPT !.units.axisIn = Other(@)])
     \/ page' = updateGroups([Handling(page, "unit") EXCEPT !.units.eulerIn = Other(@)])
  /\ UNCHANGED <<q, m, euler, axisAngle, have, last, prev>>

\* lines 339-357: axis-angle-output-degRad changes
ChangeAxisAngleOutputUnit ==
  /\ MoreEvents
  /\ page' = AxisAngleOutputUnitChanged(
               [Handling(page, "outputUnit") EXCEPT !.units.axisOut = Other(@)])
  /\ UNCHANGED <<q, m, euler, axisAngle, have, last, prev>>

\* lines 359-379: euler-output-degRad changes
ChangeEulerOutputUnit ==
  /\ MoreEvents
  /\ page' = EulerOutputUnitChanged(
               [Handling(page, "outputUnit") EXCEPT !.units.eulerOut = Other(@)])
  /\ UNCHANGED <<q, m, euler, axisAngle, have, last, prev>>

UiNext ==
  \/ ChangeRotationType
  \/ InputEvent
  \/ ChangeInputUnit
  \/ ChangeAxisAngleOutputUnit
  \/ ChangeEulerOutputUnit

UiSpec == UiInit /\ [][UiNext]_vars
(***************************************************************************)
(* The properties.  Each is about the call made last (and, for a round     *)
(* trip, the one before): last.pre holds the objects as they were before   *)
(* the call, the variables hold them as the call left them.                *)
(***************************************************************************)
Recognized == {"deg", "rad"}
UnitFunctions ==
  {"quaternionToEuler", "quaternionToAxisAngle", "axisAngleToQuaternion",
   "eulerToQuaternion", "matrixToAxisAngle"}
\* the radians a in the unit chosen
InUnit(a, degOrRad) == IF degOrRad = "deg" THEN ToDegree(a) ELSE a
Within(a, b, tol) == FLe(FAbs(FSub(a, b)), tol)
AllWithin(s, t, tol) == \A i \in DOMAIN s : Within(s[i], t[i], tol)
Negated(t) == [i \in DOMAIN t |-> FNeg(t[i])]
NormSquared(t) ==
  FAdd(FAdd(FAdd(FMul(t[1], t[1]), FMul(t[2], t[2])), FMul(t[3], t[3])), FMul(t[4], t[4]))
\* norm 1 within tolerance: the squared norm is within 1e-6 of 1
IsUnit(t) == Within(NormSquared(t), One, EPSILON)
AllFinite(t) == \A i \in DOMAIN t : IsFinite(t[i])
RoundTripTolerance == Ratio(1, 10000)

\* C1: a call of a function that takes a unit selector, with a selector other than
\* "deg" and "rad", ends with the InvalidUnit error and returns nothing.
C1_InvalidUnitRaised ==
  (last.fn \in UnitFunctions /\ last.degOrRad \notin Recognized)
    => (last.err = InvalidUnit /\ last.ret = "none")

\* a call with a zero axis; InvalidAxis is the error the spec names for it
ZeroAxisCall ==
  /\ last.fn = "axisAngleToQuaternion"
  /\ last.degOrRad \in Recognized
  /\ last.args[1] = Zero /\ last.args[2] = Zero /\ last.args[3] = Zero
\* C2: axisAngleToQuaternion of the zero axis, with a recognized unit, ends with the
\* InvalidAxis error and returns no quaternion.
C2_ZeroAxisRejected == ZeroAxisCall => (last.err = InvalidAxis /\ last.ret = "none")

LastEuler == last.fn = "quaternionToEuler" /\ last.degOrRad \in Recognized
\* what quaternionToEuler is to leave in out for the quaternion (x, y, z, w)
ExpectedEuler(f32, x, y, z, w, degOrRad) ==
  << Store(f32, InUnit(EulerGamma(x, y, z, w), degOrRad)),
     Store(f32, InUnit(EulerBeta(x, y, z, w), degOrRad)),
     Store(f32, InUnit(EulerAlpha(x, y, z, w), degOrRad)) >>
ExpectedEulerOf(f32, quat, degOrRad) ==
  ExpectedEuler(f32, quat[1], quat[2], quat[3], quat[4], degOrRad)
\* C3: after quaternionToEuler(out, quat, unit) with a recognized unit, out[0] is
\* the Z angle gamma, out[1] the Y angle beta and out[2] the X angle alpha of the
\* closed form, in the unit chosen, and the call returned out itself without error.
C3_EulerOrder ==
  LastEuler =>
    /\ last.err = "none"
    /\ last.ret = "out"
    /\ euler.el = ExpectedEulerOf(euler.f32, last.pre.q.el, last.degOrRad)
\* the three angles of the quaternion of the fields (1, 2, 3, 4) differ, in degrees
C3_ThreeAnglesWritten ==
  /\ LastEuler
  /\ last.degOrRad = "deg"
  /\ last.pre.q = getQuaternionFromInputs(FromInt(1), FromInt(2), FromInt(3), FromInt(4))
  /\ euler.el[1] # euler.el[3]
  /\ FGt(euler.el[2], Zero)

\* the raw sine term of the quaternion the last call was given
LastSinp ==
  EulerSinp(last.pre.q.el[1], last.pre.q.el[2], last.pre.q.el[3], last.pre.q.el[4])
\* beta as C4 gives it for the sine term s
BetaFor(s) ==
  IF FGe(FAbs(s), One) THEN (IF FGt(s, Zero) THEN HalfPI ELSE FNeg(HalfPI))
  ELSE FAsin(s)
\* the angle a (radians) as out holds it
AsWritten(a) == Store(euler.f32, InUnit(a, last.degOrRad))
\* a quaternion of a +90 degree rotation about Y: x = z = 0 and y = w > 0
QuarterTurnY(quat) ==
  quat[1] = Zero /\ quat[3] = Zero /\ FGt(quat[2], Zero) /\ quat[2] = quat[4]
BetaInRange ==
  /\ ~IsNaN(euler.el[2])
  /\ FLe(AsWritten(FNeg(HalfPI)), euler.el[2])
  /\ FLe(euler.el[2], AsWritten(HalfPI))
\* C4 (as corrected): after quaternionToEuler with a recognized unit, beta is
\* +pi/2 or -pi/2 by the sign of s = 2(wy - zx) when |s| >= 1 and asin(s)
\* otherwise; whenever s is a number (not NaN) beta is in [-pi/2, pi/2] and not
\* NaN; and for a quaternion of a +90 degree rotation about Y beta is within
\* 1/1000 rad (0.06 degrees) of +pi/2.
C4_ClampedBeta ==
  LastEuler =>
    /\ euler.el[2] = AsWritten(BetaFor(LastSinp))
    /\ ~IsNaN(LastSinp) => BetaInRange
    /\ QuarterTurnY(last.pre.q.el)
         => Within(euler.el[2], AsWritten(HalfPI), InUnit(Ratio(1, 1000), last.degOrRad))
\* the clamp acts: the fields (1, 1, -1, 1) give s = 1 and beta = pi/2
C4_ClampActs ==
  /\ LastEuler
  /\ last.degOrRad = "rad"
  /\ last.pre.q.f32
  /\ FGe(LastSinp, One)
  /\ euler.el[2] = AsWritten(HalfPI)
\* C4 (as stated): for every finite quaternion beta is in [-pi/2, pi/2] and never
\* NaN, and a quaternion of a +90 degree rotation about Y gives exactly +90 degrees.
C4_BetaOfEveryFiniteQuaternion ==
  (LastEuler /\ AllFinite(last.pre.q.el)) =>
    /\ BetaInRange
    /\ QuarterTurnY(last.pre.q.el) => euler.el[2] = AsWritten(HalfPI)

\* matrixToAxisAngle was called last, with a recognized unit, on a matrix that
\* isValidRotationMatrix accepts and whose computed angle is within 1e-6 of pi
LastNearPi ==
  /\ last.fn = "matrixToAxisAngle"
  /\ last.degOrRad \in Recognized
  /\ AcceptedMatrix(m.el)
  /\ NearPi(MatrixAngle(m.el))
\* M[i,i] and M[i,j] = M[j,i] of the column-major mm, i and j counted from 1
Diagonal(mm, i) == mm[4 * i - 3]
OffDiagonal(mm, i, j) == mm[3 * (Max(i, j) - 1) + Min(i, j)]
IsLargest(mm, i) == \A j \in 1..3 : FGe(Diagonal(mm, i), Diagonal(mm, j))
\* the first of M[0,0], M[1,1], M[2,2] that is >= both others
FirstLargest(mm) ==
  CHOOSE i \in 1..3 : IsLargest(mm, i) /\ \A j \in 1..(i - 1) : ~IsLargest(mm, j)
\* the axis with pivot p and pivot component c
AxisAround(mm, p, c) ==
  [i \in 1..3 |-> IF i = p THEN c ELSE FDiv(OffDiagonal(mm, p, i), FMul(Two, c))]
AxisByPivot(mm, p) ==
  AxisAround(mm, p, FSqrt(FDiv(FAdd(Diagonal(mm, p), One), Two)))
HalfTurnAboutY == Nums(<<-1, 0, 0, 0, 1, 0, 0, 0, -1>>)
\* C5: for a valid rotation matrix whose angle is within 1e-6 of pi,
\* matrixToAxisAngle leaves in out the axis whose pivot is the first of M[0,0],
\* M[1,1], M[2,2] that is >= both others: the pivot component is sqrt((d+1)/2),
\* the other two are the off-diagonal terms over twice it; the half turn about
\* (0,1,0) gives the axis (0,1,0) or (0,-1,0) and the angle pi.
C5_NearPiPivot ==
  LastNearPi =>
    /\ last.err = "none"
    /\ <<axisAngle.el[1], axisAngle.el[2], axisAngle.el[3]>>
         = StoreAll(axisAngle.f32, AxisByPivot(m.el, FirstLargest(m.el)))
    /\ m.el = HalfTurnAboutY =>
         /\ <<axisAngle.el[1], axisAngle.el[2], axisAngle.el[3]>>
              \in {Nums(<<0, 1, 0>>), Nums(<<0, -1, 0>>)}
         /\ axisAngle.el[4] = Store(axisAngle.f32, InUnit(PI, last.degOrRad))
\* a tie: M[0,0] = M[1,1] = 0 > M[2,2] = -1, and the pivot is M[0,0]
C5_TieTakesFirst ==
  /\ LastNearPi
  /\ m.el = Nums(<<0, 1, 0, 1, 0, 0, 0, 0, -1>>)
  /\ axisAngle.el[1] = Store(axisAngle.f32, FSqrt(Half))
  /\ axisAngle.el[3] = Zero

LastMatrix == last.fn = "quaternionToMatrix"
ZeroVectorPart(quat) == quat[1] = Zero /\ quat[2] = Zero /\ quat[3] = Zero
\* C6: quaternionToMatrix never throws; when x, y, z of its argument are all 0 it
\* returns the identity matrix and leaves the argument as it was; otherwise the
\* argument holds its normalized form and the matrix returned is built from that.
C6_IdentityShortCircuit ==
  LastMatrix =>
    /\ last.err = "none"
    /\ IF ZeroVectorPart(last.pre.q.el)
         THEN m = Mat3Create /\ q = last.pre.q
         ELSE /\ q = [last.pre.q EXCEPT
                        !.el = StoreAll(last.pre.q.f32, QuatNormalize(last.pre.q.el))]
              /\ m = Typed(Mat3FromQuat(q.el))
\* the short circuit on a quaternion that is not normalized: [0, 0, 0, 2] stays
C6_ZeroVectorPartKept ==
  /\ LastMatrix
  /\ last.pre.q.el = Nums(<<0, 0, 0, 2>>)
  /\ q.el = Nums(<<0, 0, 0, 2>>)
  /\ m = Mat3Create

Producers == {"axisAngleToQuaternion", "eulerToQuaternion", "matrixToQuaternion"}
\* a producing function was called last and returned
LastProduced == last.fn \in Producers /\ last.err = "none"
\* the numbers the last producing call was given
ProducerInput == IF last.fn = "matrixToQuaternion" THEN m.el ELSE last.args
\* every number is finite and at most 1000 in absolute value
Moderate(t) == \A i \in DOMAIN t : IsFinite(t[i]) /\ FLe(FAbs(t[i]), FromInt(1000))
\* C7 (as corrected): a quaternion that axisAngleToQuaternion, eulerToQuaternion or
\* matrixToQuaternion returns for finite inputs of at most 1000 in absolute value
\* has norm 1 within tolerance (its squared norm is within 1e-6 of 1).
C7_UnitNormOfModerateInputs ==
  (LastProduced /\ Moderate(ProducerInput)) => IsUnit(q.el)
\* an axis that is not of unit length, (1, 2, -2), and a quaternion that is
C7_NormalizedAxis ==
  /\ LastProduced
  /\ last.fn = "axisAngleToQuaternion"
  /\ <<last.args[1], last.args[2], last.args[3]>> = Nums(<<1, 2, -2>>)
  /\ last.args[4] = FromInt(90)
  /\ IsUnit(q.el)
  /\ q.el[4] # One
\* C7 (as stated): every quaternion a producing function returns, for whatever
\* input it accepts without an error, has norm 1 within tolerance.
C7_UnitNormOfEveryInput == LastProduced => IsUnit(q.el)

\* quaternionToAxisAngle of a unit quaternion, then axisAngleToQuaternion of the
\* axis and angle it wrote, in the same unit
RoundTripOfQuaternion ==
  /\ prev.fn = "quaternionToAxisAngle"
  /\ last.fn = "axisAngleToQuaternion"
  /\ last.degOrRad = prev.degOrRad
  /\ last.err = "none"
  /\ IsUnit(prev.pre.q.el)
\* C8: quaternionToAxisAngle of a unit quaternion q followed by
\* axisAngleToQuaternion of the result, in the same unit, gives q or -q within 1e-4
\* in every component.
C8_QuaternionRoundTrip ==
  RoundTripOfQuaternion =>
    \/ AllWithin(q.el, prev.pre.q.el, RoundTripTolerance)
    \/ AllWithin(q.el, Negated(prev.pre.q.el), RoundTripTolerance)

\* matrixToQuaternion of a matrix isValidRotationMatrix accepts, then
\* quaternionToMatrix of the quaternion returned
RoundTripOfMatrix ==
  /\ prev.fn = "matrixToQuaternion"
  /\ last.fn = "quaternionToMatrix"
  /\ AcceptedMatrix(prev.pre.m.el)
\* C9: quaternionToMatrix(matrixToQuaternion(M)) is within 1e-4 of M in every entry,
\* for an orthonormal M of determinant +1.
C9_MatrixRoundTrip ==
  RoundTripOfMatrix => AllWithin(m.el, prev.pre.m.el, RoundTripTolerance)
\* the round trip of the rotation by 120 degrees that permutes the axes
C9_PermutationRestored ==
  /\ RoundTripOfMatrix
  /\ prev.pre.m.el = Nums(<<0, 1, 0, 0, 0, 1, 1, 0, 0>>)
  /\ AllWithin(m.el, Nums(<<0, 1, 0, 0, 0, 1, 1, 0, 0>>), RoundTripTolerance)
  /\ q.el[4] # One

IdentityQuaternion == Nums(<<0, 0, 0, 1>>)
NormalizedBefore ==
  [last.pre.q EXCEPT !.el = StoreAll(last.pre.q.f32, QuatNormalize(last.pre.q.el))]
\* what the last call may have changed: for each function, the objects other than
\* its out buffer (or the object it returns) are as they were
FrameOfLast ==
  CASE last.fn = "quaternionToEuler" ->
         q = last.pre.q /\ m = last.pre.m /\ axisAngle = last.pre.axisAngle
    [] last.fn = "quaternionToAxisAngle" ->
         q = NormalizedBefore /\ m = last.pre.m /\ euler = last.pre.euler
    [] last.fn = "quaternionToMatrix" ->
         /\ q \in {NormalizedBefore, last.pre.q}
         /\ euler = last.pre.euler /\ axisAngle = last.pre.axisAngle
    [] last.fn \in Producers ->
         m = last.pre.m /\ euler = last.pre.euler /\ axisAngle = last.pre.axisAngle
    [] last.fn = "matrixToAxisAngle" ->
         q = last.pre.q /\ m = last.pre.m /\ euler = last.pre.euler
    [] OTHER -> TRUE
\* the quaternion a producing function returns is the one it returns for the same
\* arguments when no call was made before
SameAsFirstCall ==
  CASE last.fn = "axisAngleToQuaternion" ->
         q = axisAngleToQuaternion(last.args[1], last.args[2], last.args[3],
                                   last.args[4], last.degOrRad).ret
    [] last.fn = "eulerToQuaternion" ->
         q = eulerToQuaternion(last.args[1], last.args[2], last.args[3],
                               last.degOrRad).ret
    [] last.fn = "matrixToQuaternion" -> q = matrixToQuaternion(last.pre.m).ret
    [] OTHER -> TRUE
\* C11: a call changes only its out buffer, and for quaternionToAxisAngle and
\* quaternionToMatrix also the input quaternion, which then holds its normalized
\* form (quaternionToMatrix leaves it as it was when x = y = z = 0); every other
\* argument is unchanged, and what a call returns does not depend on the call before.
C11_OnlyOutAndNormalizedInput ==
  FrameOfLast /\ (LastProduced => SameAsFirstCall)
\* quaternionToEuler on a quaternion that quat.normalize would change
C11_EulerLeavesQuaternion ==
  /\ last.fn = "quaternionToEuler"
  /\ last.pre.q # NormalizedBefore
  /\ q = last.pre.q
  /\ euler # last.pre.euler

LastEulerProduced == last.fn = "eulerToQuaternion" /\ last.err = "none"
\* the angle a, given in the unit chosen, in degrees
AsDegrees(a, degOrRad) == IF degOrRad = "rad" THEN ToDegree(a) ELSE a
\* the quaternion of the Z-Y-X builder for the degrees (x, y, z), normalized
BuiltFromDegrees(x, y, z) == Typed(QuatNormalize(StoreAll(TRUE, QuatFromEuler(x, y, z))))
\* C12: eulerToQuaternion(alpha, beta, gamma, unit) is the quaternion of the Z-Y-X
\* builder for (gamma, beta, alpha) in degrees, the three angles converted to
\* degrees first when the unit is "rad"; so eulerToQuaternion(alpha, beta, gamma,
\* "rad") equals eulerToQuaternion(toDegree(alpha), toDegree(beta), toDegree(gamma), "deg").
C12_RadiansThroughDegrees ==
  LastEulerProduced =>
    /\ q = BuiltFromDegrees(AsDegrees(last.args[3], last.degOrRad),
                            AsDegrees(last.args[2], last.degOrRad),
                            AsDegrees(last.args[1], last.degOrRad))
    /\ last.degOrRad = "rad" =>
         q = eulerToQuaternion(ToDegree(last.args[1]), ToDegree(last.args[2]),
                               ToDegree(last.args[3]), "deg").ret
\* radians (pi/2, 0, pi): three different angles, and a quaternion that is not the identity
C12_RadiansGiven ==
  /\ LastEulerProduced
  /\ last.degOrRad = "rad"
  /\ last.args = <<HalfPI, Zero, PI>>
  /\ q = BuiltFromDegrees(ToDegree(PI), Zero, ToDegree(HalfPI))
  /\ q.el[4] # One

\* C14: when a call ends with the InvalidUnit error, every object of the caller
\* holds what it held before the call.
C14_FailedCallChangesNothing ==
  last.err = InvalidUnit => Snapshot = last.pre

(***************************************************************************)
(* The properties of the page, under UiSpec.  Each is about the event      *)
(* handled last.                                                           *)
(***************************************************************************)
\* the events whose handler is updateGroups
Regrouping == {"load", "change", "input", "unit"}
ZeroAxis(args) == FEq(args[1], Zero) /\ FEq(args[2], Zero) /\ FEq(args[3], Zero)
\* the selected group's fields parse and fail the validation of their reader
AxisRefused ==
  /\ page.selected = "axis-angle"
  /\ page.fields["axis-angle"] # Unparsable
  /\ ZeroAxis(page.fields["axis-angle"])
MatrixRefused ==
  /\ page.selected = "matrix"
  /\ page.fields["matrix"] # Unparsable
  /\ ~AcceptedMatrix(page.fields["matrix"])
\* what a failed validation leaves: the message, the default outputs, no call
RefusedWith(message) ==
  /\ page.errorText = message
  /\ page.outText = DefaultTexts
  /\ page.calls = <<>>

\* C13: in every event the page handles, matrixToQuaternion and
\* matrixToAxisAngle are given only a matrix isValidRotationMatrix accepts and
\* axisAngleToQuaternion only an axis that is not the zero vector; and when
\* the handler is updateGroups and the selected matrix or axis fails its
\* validation, the error message is shown, the four outputs hold their
\* defaults, and no conversion function nor setTargetRotation is called.
C13_OnlyValidatedInputsConverted ==
  /\ \A i \in DOMAIN page.calls :
       /\ page.calls[i].fn \in {"matrixToQuaternion", "matrixToAxisAngle"}
            => AcceptedMatrix(page.calls[i].args)
       /\ page.calls[i].fn = "axisAngleToQuaternion" => ~ZeroAxis(page.calls[i].args)
  /\ (page.handled \in Regrouping /\ AxisRefused) => RefusedWith(InvalidAxis)
  /\ (page.handled \in Regrouping /\ MatrixRefused) => RefusedWith(InvalidMatrix)
\* a matrix that is no rotation was typed after a conversion had set the
\* outputs and the target, and was refused
C13_MatrixRefused ==
  /\ page.handled = "input"
  /\ MatrixRefused
  /\ RefusedWith(InvalidMatrix)
  /\ page.targetQ # QuatCreate.el
\* the zero axis was typed and refused
C13_ZeroAxisRefused ==
  /\ page.handled = "input"
  /\ AxisRefused
  /\ RefusedWith(InvalidAxis)

\* C15: after every event, exactly the input group of the selected
\* representation is displayed and editable, and the output group of the
\* selected representation is hidden while the other three are shown, also
\* when the selected fields do not parse.
C15_SelectedGroupsShown ==
  /\ \A t \in Types : page.inputShown[t] = (t = page.selected)
  /\ \A t \in Types : page.outputShown[t] = (t # page.selected)
====
